---------------------------- MODULE Spec2Model ----------------------------
(***************************************************************************)
(* SD-JWT wrapper (src/wrapper/src/wrapper.rs): the issuer, holder and     *)
(* verifier wrappers around the sd_jwt_rs protocol engine.                 *)
(*                                                                         *)
(* Text is a sequence of lexical atoms: the JSON punctuation, the quote    *)
(* "q", the escaped quote "bq", blanks, digits, the three keywords, and    *)
(* opaque chunks of ordinary characters.  serde_json's from_str and        *)
(* to_string are the operators from_str and to_string over such text.        *)
(*                                                                         *)
(* The engine (sd_jwt_rs::SDJWTIssuer, SDJWTHolder, SDJWTVerifier) is not  *)
(* part of wrapper.rs; it is modelled from sections 4 and 7 of the design  *)
(* document, with hashing, base64url and signatures as symbolic            *)
(* constructors.                                                           *)
(***************************************************************************)
EXTENDS Integers, Sequences, FiniteSets, TLC

(***************************************************************************)
(* serde_json::Value                                                       *)
(***************************************************************************)
NoMap == [k \in {} |-> 0]

JStr(s) == [t |-> "string", s |-> s, m |-> NoMap, a |-> <<>>, h |-> <<>>]
JNum(s) == [t |-> "number", s |-> s, m |-> NoMap, a |-> <<>>, h |-> <<>>]
JBool(b) == [t |-> "bool", s |-> IF b THEN <<"true">> ELSE <<"false">>,
             m |-> NoMap, a |-> <<>>, h |-> <<>>]
JNull == [t |-> "null", s |-> <<"null">>, m |-> NoMap, a |-> <<>>, h |-> <<>>]
JObj(m) == [t |-> "object", s |-> <<>>, m |-> m, a |-> <<>>, h |-> <<>>]
JArr(a) == [t |-> "array", s |-> <<>>, m |-> NoMap, a |-> a, h |-> <<>>]

is_string(v) == v.t = "string"
is_number(v) == v.t = "number"
is_object(v) == v.t = "object"
is_array(v) == v.t = "array"

\* Map::insert: the later value replaces an earlier one under the same key.
MapInsert(m, k, v) == [x \in (DOMAIN m) \cup {k} |-> IF x = k THEN v ELSE m[x]]
MapRemove(m, k) == [x \in (DOMAIN m) \ {k} |-> m[x]]

Digits == {"0", "1", "2", "3", "7"}
Blank == " "

\* The keys of a set of keys in the order serde_json's map iterates them.
KeyOrder == << <<"_sd">>, <<"_sd_alg">>, <<"...">>, <<"a">>, <<"address">>,
               <<"b">>, <<"city">>, <<"cnf">>, <<"country">>, <<"iat">>,
               <<"l">>, <<"n">>, <<"o">>, <<"ok">>, <<"street">>, <<"sub">>, <<"tags">> >>

RECURSIVE SortedKeysFrom(_, _)
SortedKeysFrom(keys, i) ==
    IF i > Len(KeyOrder) THEN <<>>
    ELSE (IF KeyOrder[i] \in keys THEN <<KeyOrder[i]>> ELSE <<>>)
         \o SortedKeysFrom(keys, i + 1)
SortedKeys(keys) == SortedKeysFrom(keys, 1)

(***************************************************************************)
(* serde_json::to_string / Value::to_string                                *)
(***************************************************************************)
RECURSIVE EscapeText(_)
EscapeText(s) ==
    IF s = <<>> THEN <<>>
    ELSE (IF Head(s) = "q" THEN <<"bq">> ELSE <<Head(s)>>) \o EscapeText(Tail(s))

\* A digest string is opaque base64url text: one atom.
StringText(v) == IF v.h # <<>> THEN <<"q", "digest", "q">>
                 ELSE <<"q">> \o EscapeText(v.s) \o <<"q">>

RECURSIVE to_string(_), MembersText(_, _), ElementsText(_)
to_string(v) ==
    CASE v.t = "string" -> StringText(v)
      [] v.t = "object" -> <<"{">> \o MembersText(v.m, SortedKeys(DOMAIN v.m)) \o <<"}">>
      [] v.t = "array" -> <<"[">> \o ElementsText(v.a) \o <<"]">>
      [] OTHER -> v.s
MembersText(m, keys) ==
    IF keys = <<>> THEN <<>>
    ELSE StringText(JStr(Head(keys))) \o <<":">> \o to_string(m[Head(keys)])
         \o (IF Len(keys) > 1 THEN <<",">> ELSE <<>>)
         \o MembersText(m, Tail(keys))
ElementsText(a) ==
    IF a = <<>> THEN <<>>
    ELSE to_string(Head(a)) \o (IF Len(a) > 1 THEN <<",">> ELSE <<>>)
         \o ElementsText(Tail(a))

(***************************************************************************)
(* serde_json::from_str                                                    *)
(***************************************************************************)
PFail == [ok |-> FALSE, v |-> JNull, i |-> 0]
POk(v, i) == [ok |-> TRUE, v |-> v, i |-> i]

RECURSIVE SkipWs(_, _)
SkipWs(txt, i) == IF i <= Len(txt) /\ txt[i] = Blank THEN SkipWs(txt, i + 1) ELSE i

\* After the opening quote: the content up to the closing quote.
RECURSIVE ScanString(_, _, _)
ScanString(txt, i, acc) ==
    IF i > Len(txt) THEN PFail
    ELSE IF txt[i] = "q" THEN POk(JStr(acc), i + 1)
    ELSE ScanString(txt, i + 1, Append(acc, IF txt[i] = "bq" THEN "q" ELSE txt[i]))

RECURSIVE ScanDigits(_, _)
ScanDigits(txt, i) == IF i <= Len(txt) /\ txt[i] \in Digits THEN ScanDigits(txt, i + 1) ELSE i

NumberUpTo(txt, i, j) ==
    IF txt[i] = "0" /\ j > i + 1 THEN PFail
    ELSE POk(JNum(SubSeq(txt, i, j - 1)), j)
ParseNumber(txt, i) == NumberUpTo(txt, i, ScanDigits(txt, i))

\* Each step of the parser takes what the steps before it read as arguments.
RECURSIVE ParseValue(_, _), ParseMembers(_, _, _), ParseElements(_, _, _)
MemberNext(txt, acc, e) ==
    IF e > Len(txt) THEN PFail
    ELSE IF txt[e] = "}" THEN POk(JObj(acc), e + 1)
    ELSE IF txt[e] = "," THEN ParseMembers(txt, e + 1, acc)
    ELSE PFail
MemberEnd(txt, k, v, acc) ==
    IF ~v.ok THEN PFail
    ELSE MemberNext(txt, MapInsert(acc, k.v.s, v.v), SkipWs(txt, v.i))
MemberValue(txt, k, c, acc) ==
    IF c > Len(txt) \/ txt[c] # ":" THEN PFail
    ELSE MemberEnd(txt, k, ParseValue(txt, c + 1), acc)
MemberColon(txt, k, acc) ==
    IF ~k.ok THEN PFail ELSE MemberValue(txt, k, SkipWs(txt, k.i), acc)
MemberKey(txt, i, acc) ==
    IF i > Len(txt) \/ txt[i] # "q" THEN PFail
    ELSE MemberColon(txt, ScanString(txt, i + 1, <<>>), acc)
ParseMembers(txt, i0, acc) == MemberKey(txt, SkipWs(txt, i0), acc)

ElementNext(txt, acc, e) ==
    IF e > Len(txt) THEN PFail
    ELSE IF txt[e] = "]" THEN POk(JArr(acc), e + 1)
    ELSE IF txt[e] = "," THEN ParseElements(txt, e + 1, acc)
    ELSE PFail
ElementEnd(txt, v, acc) ==
    IF ~v.ok THEN PFail ELSE ElementNext(txt, Append(acc, v.v), SkipWs(txt, v.i))
ParseElements(txt, i0, acc) == ElementEnd(txt, ParseValue(txt, i0), acc)

ObjectFrom(txt, j) ==
    IF j <= Len(txt) /\ txt[j] = "}" THEN POk(JObj(NoMap), j + 1)
    ELSE ParseMembers(txt, j, NoMap)
ArrayFrom(txt, j) ==
    IF j <= Len(txt) /\ txt[j] = "]" THEN POk(JArr(<<>>), j + 1)
    ELSE ParseElements(txt, j, <<>>)
ValueAt(txt, i) ==
    IF i > Len(txt) THEN PFail
    ELSE CASE txt[i] = "q" -> ScanString(txt, i + 1, <<>>)
           [] txt[i] \in Digits -> ParseNumber(txt, i)
           [] txt[i] = "true" -> POk(JBool(TRUE), i + 1)
           [] txt[i] = "false" -> POk(JBool(FALSE), i + 1)
           [] txt[i] = "null" -> POk(JNull, i + 1)
           [] txt[i] = "{" -> ObjectFrom(txt, SkipWs(txt, i + 1))
           [] txt[i] = "[" -> ArrayFrom(txt, SkipWs(txt, i + 1))
           [] OTHER -> PFail
ParseValue(txt, i0) == ValueAt(txt, SkipWs(txt, i0))

\* The whole text must be one value: trailing characters are an error.
WholeText(txt, r) == IF r.ok /\ SkipWs(txt, r.i) > Len(txt) THEN r ELSE PFail
from_str(txt) == WholeText(txt, ParseValue(txt, 1))

(***************************************************************************)
(* Errors.  An engine error and a wrapper error have a kind and a message; *)
(* IndexOutOfBounds also carries idx and length.                           *)
(***************************************************************************)
Err(kind, message) == [kind |-> kind, message |-> <<message>>, idx |-> 0, length |-> 0]
ErrIndex(idx, length, msg) ==
    [kind |-> "IndexOutOfBounds", message |-> <<msg>>, idx |-> idx, length |-> length]
NoErr == Err("none", "")

(***************************************************************************)
(* Engine, Disclosure Codec (design document 4.1).  An encoded disclosure  *)
(* is base64url text of the JSON array [salt, key, value] or [salt, value];*)
(* wf says that the text is well-formed base64url of a JSON array.  The    *)
(* digest of an encoded disclosure is a string that determines it.         *)
(***************************************************************************)
EncodeDisclosure(salt, key, value) == [wf |-> TRUE, arr |-> <<JStr(salt), JStr(key), value>>]
EncodeArrayDisclosure(salt, value) == [wf |-> TRUE, arr |-> <<JStr(salt), value>>]
DigestOf(seg) == [t |-> "string", s |-> <<>>, m |-> NoMap, a |-> <<>>, h |-> <<seg>>]
IsDigest(v) == v.t = "string" /\ v.h # <<>>

\* decode: malformed base64 or JSON array, or an arity other than 2 or 3.
DecodeOk(seg) == seg.wf /\ Len(seg.arr) \in {2, 3}
DisclosureValue(seg) == seg.arr[Len(seg.arr)]
DisclosureKey(seg) == seg.arr[2].s
IsObjectDisclosure(seg) == Len(seg.arr) = 3
IsArrayDisclosure(seg) == Len(seg.arr) = 2

SD_DIGESTS_KEY == <<"_sd">>
DIGEST_ALG_KEY == <<"_sd_alg">>
SD_LIST_PREFIX == <<"...">>
CNF_KEY == <<"cnf">>

(***************************************************************************)
(* Engine, Claim Selector (4.2).  A path is a sequence of steps, a step an *)
(* object key or an array index (from 1).                                  *)
(***************************************************************************)
KeyStep(k) == [k |-> k, i |-> 0]
IdxStep(i) == [k |-> <<>>, i |-> i]
IdxAtoms == <<"#1", "#2", "#3", "#4">>

RECURSIVE PathAtoms(_)
PathAtoms(p) ==
    IF p = <<>> THEN <<>>
    ELSE (IF Head(p).i = 0 THEN Head(p).k ELSE <<IdxAtoms[Head(p).i]>>) \o PathAtoms(Tail(p))

\* A fresh random salt per disclosure: unique within one issuance.
Salt(p) == <<"salt">> \o PathAtoms(p)

Selected(strategy, p) ==
    CASE strategy.kind = "AllLevels" -> TRUE
      [] strategy.kind = "TopLevel" -> Len(p) = 1
      [] strategy.kind = "Custom" -> p \in strategy.paths
      [] OTHER -> FALSE

\* What a Custom path resolves to in the claims document.
RECURSIVE ResolvePath(_, _)
ResolvePath(v, p) ==
    IF p = <<>> THEN NoErr
    ELSE IF Head(p).i = 0
         THEN IF is_object(v) /\ Head(p).k \in DOMAIN v.m
              THEN ResolvePath(v.m[Head(p).k], Tail(p))
              ELSE Err("InvalidPath", "path")
         ELSE IF ~is_array(v) THEN Err("InvalidPath", "path")
              ELSE IF Head(p).i > Len(v.a)
                   THEN ErrIndex(Head(p).i - 1, Len(v.a), "path")
                   ELSE ResolvePath(v.a[Head(p).i], Tail(p))

RECURSIVE DecoyDigests(_, _)
DecoyDigests(p, n) ==
    IF n = 0 THEN <<>>
    ELSE Append(DecoyDigests(p, n - 1),
                DigestOf([wf |-> TRUE, arr |-> <<JStr(<<"decoy", IdxAtoms[n]>> \o PathAtoms(p))>>]))

\* The transformed value and the disclosures created below path p.
RECURSIVE Select(_, _, _, _), SelectMembers(_, _, _, _, _, _), SelectElements(_, _, _, _, _, _)
Select(v, p, strategy, decoys) ==
    IF is_object(v)
    THEN LET r == SelectMembers(v.m, SortedKeys(DOMAIN v.m), p, strategy, decoys,
                                [plain |-> NoMap, sd |-> <<>>, d |-> <<>>])
             sd == IF r.sd = <<>> THEN <<>> ELSE r.sd \o DecoyDigests(p, decoys)
         IN [v |-> JObj(IF sd = <<>> THEN r.plain
                        ELSE MapInsert(r.plain, SD_DIGESTS_KEY, JArr(sd))),
             d |-> r.d]
    ELSE IF is_array(v)
    THEN SelectElements(v.a, 1, p, strategy, decoys, [v |-> JArr(<<>>), d |-> <<>>])
    ELSE [v |-> v, d |-> <<>>]
SelectMembers(m, keys, p, strategy, decoys, acc) ==
    IF keys = <<>> THEN acc
    ELSE LET k == Head(keys)
             q == Append(p, KeyStep(k))
             r == Select(m[k], q, strategy, decoys)
             seg == EncodeDisclosure(Salt(q), k, r.v)
         IN SelectMembers(m, Tail(keys), p, strategy, decoys,
               IF Selected(strategy, q)
               THEN [plain |-> acc.plain, sd |-> Append(acc.sd, DigestOf(seg)),
                     d |-> acc.d \o r.d \o <<seg>>]
               ELSE [plain |-> MapInsert(acc.plain, k, r.v), sd |-> acc.sd,
                     d |-> acc.d \o r.d])
SelectElements(a, i, p, strategy, decoys, acc) ==
    IF i > Len(a) THEN acc
    ELSE LET q == Append(p, IdxStep(i))
             r == Select(a[i], q, strategy, decoys)
             seg == EncodeArrayDisclosure(Salt(q), r.v)
         IN SelectElements(a, i + 1, p, strategy, decoys,
               IF Selected(strategy, q)
               THEN [v |-> JArr(Append(acc.v.a, JObj(SD_LIST_PREFIX :> DigestOf(seg)))),
                     d |-> acc.d \o r.d \o <<seg>>]
               ELSE [v |-> JArr(Append(acc.v.a, r.v)), d |-> acc.d \o r.d])

(***************************************************************************)
(* Engine, tokens (3, 6).  A signature names the key that made it and the  *)
(* payload it covers.  A token text is the compact "~"-joined string or    *)
(* the JSON form of a JWS, its disclosures and an optional key-binding JWT.*)
(***************************************************************************)
Sign(key, alg, payload) == [alg |-> alg, payload |-> payload, by |-> key, over |-> payload]
SignatureOk(jws, pub) == jws.by = pub /\ jws.over = jws.payload

TokenText(format, jws, disclosures, kb) ==
    [fmt |-> format, jws |-> jws, disclosures |-> disclosures, kb |-> kb]
GarbageText == [fmt |-> "garbage", jws |-> Sign("nobody", "none", JNull),
                disclosures |-> <<>>, kb |-> <<>>]

\* str::split('~') of a compact token: the JWS, the disclosures, and the
\* key-binding JWT or the empty text after the last "~".
SplitTilde(text) ==
    <<[k |-> "jws", jws |-> text.jws]>>
    \o [i \in 1..Len(text.disclosures) |-> [k |-> "disclosure", seg |-> text.disclosures[i]]]
    \o <<IF text.kb = <<>> THEN [k |-> "empty"] ELSE [k |-> "kb", kb |-> text.kb[1]]>>

Range(f) == {f[x] : x \in DOMAIN f}

\* DigestSet: digest -> disclosure; a digest may not appear twice.
HasDuplicateDigest(disclosures) ==
    \E i, j \in DOMAIN disclosures : i < j /\ DigestOf(disclosures[i]) = DigestOf(disclosures[j])

ParseToken(text, format) ==
    IF text.fmt # format
    THEN IF format = "JSON" THEN Err("DeserializationError", "token")
                            ELSE Err("InvalidInput", "token")
    ELSE IF \E i \in DOMAIN text.disclosures : ~DecodeOk(text.disclosures[i])
    THEN Err("InvalidDisclosure", "disclosure")
    ELSE IF HasDuplicateDigest(text.disclosures)
    THEN Err("DuplicateDigestError", "digest")
    ELSE NoErr

(***************************************************************************)
(* Engine, Issuer (4.3)                                                    *)
(***************************************************************************)
IssuerKey == "issuer-key"
HolderKey == "holder-key"
HashAlg == <<"sha-256">>

RECURSIVE FirstPathError(_, _)
FirstPathError(doc, paths) ==
    IF paths = {} THEN NoErr
    ELSE LET p == CHOOSE x \in paths : TRUE
             e == ResolvePath(doc, p)
         IN IF e.kind # "none" THEN e ELSE FirstPathError(doc, paths \ {p})

\* The key family an algorithm belongs to.
KeyFamily(alg) ==
    CASE alg \in {"ES256", "ES384"} -> "EC"
      [] alg \in {"RS256", "RS384", "RS512"} -> "RSA"
      [] alg = "EdDSA" -> "Ed25519"
      [] OTHER -> "unsupported"

KeyTypes == {"EC", "RSA", "Ed25519"}

\* The algorithm a key type implies when the caller names none.
ImpliedAlg(type) ==
    CASE type = "EC" -> "ES256"
      [] type = "RSA" -> "RS256"
      [] OTHER -> "EdDSA"

\* SDJWTIssuer::new: the key and the algorithm the issuer signs with.
EngineIssuerNew(issuer_key, sign_alg) ==
    [key |-> issuer_key.key, type |-> issuer_key.type,
     alg |-> IF sign_alg = <<>> THEN ImpliedAlg(issuer_key.type) ELSE sign_alg[1]]

\* A signing step that signs with whatever algorithm the issuer holds.
SignTokenWithAnyAlg(issuer, payload) ==
    [ok |-> TRUE, jws |-> Sign(issuer.key, issuer.alg, payload)]

\* The signing step: a key signs only with an algorithm of its own family.
SignToken(issuer, payload) ==
    IF KeyFamily(issuer.alg) = issuer.type
    THEN [ok |-> TRUE, jws |-> Sign(issuer.key, issuer.alg, payload)]
    ELSE [ok |-> FALSE, jws |-> Sign(issuer.key, issuer.alg, payload)]

EngineIssue(issuer, claims, strategy, holder_key, decoys, format) ==
    IF ~is_object(claims) THEN [err |-> Err("DataFieldMismatch", "claims"), text |-> GarbageText]
    ELSE IF strategy.kind = "Custom" /\ FirstPathError(claims, strategy.paths).kind # "none"
    THEN [err |-> FirstPathError(claims, strategy.paths), text |-> GarbageText]
    ELSE IF ~SignToken(issuer, JNull).ok
    THEN [err |-> Err("Unspecified", "sign"), text |-> GarbageText]
    ELSE LET r == Select(claims, <<>>, strategy, decoys)
             withAlg == MapInsert(r.v.m, DIGEST_ALG_KEY, JStr(HashAlg))
             payload == JObj(IF holder_key = <<>> THEN withAlg
                             ELSE MapInsert(withAlg, CNF_KEY, JStr(<<holder_key[1]>>)))
         IN [err |-> NoErr,
             text |-> TokenText(format, SignToken(issuer, payload).jws, r.d, <<>>)]

(***************************************************************************)
(* Engine, Holder / Presentation Builder (4.4)                             *)
(***************************************************************************)
EngineHolderNew(text, format) ==
    [err |-> ParseToken(text, format), jws |-> text.jws,
     disclosures |-> text.disclosures, fmt |-> format]

Min(x, y) == IF x < y THEN x ELSE y

IsDigestMarker(v) == is_object(v) /\ DOMAIN v.m = {SD_LIST_PREFIX}

\* The disclosures to select: claims_to_disclose walked in parallel with the
\* protected claims; a path absent from the protected side is ignored.
RECURSIVE Walk(_, _, _)
Walk(c, p, discs) ==
    IF is_object(c) /\ is_object(p)
    THEN UNION { IF k \in DOMAIN p.m /\ k # SD_DIGESTS_KEY
                 THEN Walk(c.m[k], p.m[k], discs)
                 ELSE LET hits == { seg \in Range(discs) :
                                      /\ IsObjectDisclosure(seg)
                                      /\ DisclosureKey(seg) = k
                                      /\ SD_DIGESTS_KEY \in DOMAIN p.m
                                      /\ DigestOf(seg) \in Range(p.m[SD_DIGESTS_KEY].a) }
                      IN hits \cup UNION { Walk(c.m[k], DisclosureValue(seg), discs) : seg \in hits }
               : k \in DOMAIN c.m }
    ELSE IF is_array(c) /\ is_array(p)
    THEN UNION { IF IsDigestMarker(p.a[i])
                 THEN LET hits == { seg \in Range(discs) :
                                      /\ IsArrayDisclosure(seg)
                                      /\ DigestOf(seg) = p.a[i].m[SD_LIST_PREFIX] }
                      IN hits \cup UNION { Walk(c.a[i], DisclosureValue(seg), discs) : seg \in hits }
                 ELSE Walk(c.a[i], p.a[i], discs)
               : i \in 1..Min(Len(c.a), Len(p.a)) }
    ELSE {}

RECURSIVE Keep(_, _)
Keep(discs, chosen) ==
    IF discs = <<>> THEN <<>>
    ELSE (IF Head(discs) \in chosen THEN <<Head(discs)>> ELSE <<>>) \o Keep(Tail(discs), chosen)

SignAlgs == {"ES256", "ES384", "RS256", "RS384", "RS512", "EdDSA"}

\* The key-binding JWT: typ kb+jwt, payload {nonce, aud, sd_hash}, signed by
\* the holder key.
KeyBindingJwt(nonce, aud, key, jws, disclosures) ==
    [nonce |-> nonce, aud |-> aud, by |-> key,
     sd_hash |-> [jws |-> jws, disclosures |-> disclosures]]

\* nonce, aud and holder_key are <<>> (None) or a one-element tuple (Some).
\* The holder of the result is the holder after the call: the token and its
\* disclosure set as they were.
EngineCreatePresentation(holder, claims_to_disclose, nonce, aud, holder_key, sign_alg) ==
    LET chosen == Walk(JObj(claims_to_disclose), holder.jws.payload, holder.disclosures)
        kept == Keep(holder.disclosures, chosen)
        bind == nonce # <<>> /\ aud # <<>> /\ holder_key # <<>>
    IN IF bind /\ sign_alg # <<>> /\ sign_alg[1] \notin SignAlgs
       THEN [err |-> Err("Unspecified", "sign"), text |-> GarbageText, holder |-> holder]
       ELSE [err |-> NoErr,
             text |-> TokenText(holder.fmt, holder.jws, kept,
                        IF bind
                        THEN <<KeyBindingJwt(nonce[1], aud[1], holder_key[1], holder.jws, kept)>>
                        ELSE <<>>),
             holder |-> holder]

(***************************************************************************)
(* Engine, Verifier (4.5)                                                  *)
(***************************************************************************)
UOk(v) == [err |-> NoErr, v |-> v]
UErr(e) == [err |-> e, v |-> JNull]

\* (3) every digest reference with a disclosure is replaced by the disclosed
\* value; a digest without one (undisclosed or decoy) is dropped.
RECURSIVE Unpack(_, _), UnpackPlain(_, _, _, _), UnpackDigests(_, _, _), UnpackElements(_, _, _, _)
Unpack(v, discs) ==
    IF is_object(v)
    THEN LET plain == UnpackPlain(v.m,
                         SortedKeys(DOMAIN v.m \ {SD_DIGESTS_KEY, DIGEST_ALG_KEY}),
                         discs, UOk(JObj(NoMap)))
         IN IF plain.err.kind # "none" \/ SD_DIGESTS_KEY \notin DOMAIN v.m THEN plain
            ELSE UnpackDigests(v.m[SD_DIGESTS_KEY].a, discs, plain)
    ELSE IF is_array(v) THEN UnpackElements(v.a, 1, discs, UOk(JArr(<<>>)))
    ELSE UOk(v)
UnpackPlain(m, keys, discs, acc) ==
    IF keys = <<>> \/ acc.err.kind # "none" THEN acc
    ELSE LET r == Unpack(m[Head(keys)], discs)
         IN UnpackPlain(m, Tail(keys), discs,
               IF r.err.kind # "none" THEN r
               ELSE UOk(JObj(MapInsert(acc.v.m, Head(keys), r.v))))
UnpackDigests(digests, discs, acc) ==
    IF digests = <<>> \/ acc.err.kind # "none" THEN acc
    ELSE LET hits == { seg \in Range(discs) :
                         IsObjectDisclosure(seg) /\ DigestOf(seg) = Head(digests) }
         IN IF hits = {} THEN UnpackDigests(Tail(digests), discs, acc)
            ELSE LET seg == CHOOSE x \in hits : TRUE
                     r == Unpack(DisclosureValue(seg), discs)
                 IN UnpackDigests(Tail(digests), discs,
                       IF DisclosureKey(seg) \in DOMAIN acc.v.m
                       THEN UErr(Err("DuplicateKeyError", "key"))
                       ELSE IF r.err.kind # "none" THEN r
                       ELSE UOk(JObj(MapInsert(acc.v.m, DisclosureKey(seg), r.v))))
UnpackElements(a, i, discs, acc) ==
    IF i > Len(a) \/ acc.err.kind # "none" THEN acc
    ELSE IF IsDigestMarker(a[i])
    THEN LET hits == { seg \in Range(discs) :
                         IsArrayDisclosure(seg) /\ DigestOf(seg) = a[i].m[SD_LIST_PREFIX] }
         IN IF hits = {} THEN UnpackElements(a, i + 1, discs, acc)
            ELSE LET r == Unpack(DisclosureValue(CHOOSE x \in hits : TRUE), discs)
                 IN UnpackElements(a, i + 1, discs,
                       IF r.err.kind # "none" THEN r ELSE UOk(JArr(Append(acc.v.a, r.v))))
    ELSE LET r == Unpack(a[i], discs)
         IN UnpackElements(a, i + 1, discs,
               IF r.err.kind # "none" THEN r ELSE UOk(JArr(Append(acc.v.a, r.v))))

\* (4) the key-binding JWT is signed by the key of the cnf claim and carries
\* the expected aud and nonce; none where one was required is an error too.
KeyBindingError(text, expected_aud, expected_nonce) ==
    LET payload == text.jws.payload
    IN IF text.kb = <<>>
       THEN IF expected_aud # <<>> \/ expected_nonce # <<>>
            THEN Err("InvalidInput", "no key binding") ELSE NoErr
       ELSE IF \/ ~is_object(payload)
               \/ CNF_KEY \notin DOMAIN payload.m
               \/ payload.m[CNF_KEY] # JStr(<<text.kb[1].by>>)
               \/ text.kb[1].sd_hash # [jws |-> text.jws, disclosures |-> text.disclosures]
            THEN Err("InvalidInput", "key binding signature")
       ELSE IF <<text.kb[1].aud>> # expected_aud THEN Err("InvalidInput", "aud")
       ELSE IF <<text.kb[1].nonce>> # expected_nonce THEN Err("InvalidInput", "nonce")
       ELSE NoErr

\* pub is the key the resolver callback returned for the JWT header.
EngineVerifierNew(text, pub, expected_aud, expected_nonce, format) ==
    LET fmtErr == IF text.fmt = format THEN NoErr
                  ELSE IF format = "JSON" THEN Err("DeserializationError", "token")
                  ELSE Err("InvalidInput", "token")
        claims == Unpack(text.jws.payload, text.disclosures)
        kbErr == KeyBindingError(text, expected_aud, expected_nonce)
    IN IF fmtErr.kind # "none" THEN UErr(fmtErr)
       ELSE IF ~SignatureOk(text.jws, pub) THEN UErr(Err("InvalidInput", "signature"))
       ELSE IF ParseToken(text, format).kind # "none" THEN UErr(ParseToken(text, format))
       ELSE IF claims.err.kind # "none" THEN claims
       ELSE IF kbErr.kind # "none" THEN UErr(kbErr)
       ELSE claims

(***************************************************************************)
(* Wrapper: SDJWTError and the conversion of an engine error               *)
(***************************************************************************)
ErrorKinds == {"ConversionError", "DeserializationError", "DataFieldMismatch",
               "DuplicateDigestError", "DuplicateKeyError", "InvalidDisclosure",
               "InvalidArrayDisclosureObject", "InvalidPath", "IndexOutOfBounds",
               "InvalidState", "InvalidInput", "KeyNotFound", "Unspecified"}

MaxI32 == 2147483647

\* usize as i32: the low 32 bits, two's complement.
AsI32(n) == IF n <= MaxI32 THEN n ELSE n - MaxI32 - MaxI32 - 2

IntoSDJWTError(e) ==
    IF e.kind = "IndexOutOfBounds"
    THEN [kind |-> "IndexOutOfBounds", message |-> e.message,
          idx |-> AsI32(e.idx), length |-> AsI32(e.length)]
    ELSE IF e.kind \in ErrorKinds
    THEN [kind |-> e.kind, message |-> e.message, idx |-> 0, length |-> 0]
    ELSE [kind |-> "Unspecified", message |-> <<"Unknown Error">>, idx |-> 0, length |-> 0]

\* err.to_string(): the Display text of an error, its kind's prefix and its message.
ErrToString(e) == <<e.kind>> \o e.message

\* .map_err(|err| SDJWTError::Unspecified { message: err.to_string() })
UnspecifiedFrom(e) ==
    [kind |-> "Unspecified", message |-> ErrToString(e), idx |-> 0, length |-> 0]

SerdeError == Err("serde_json", "syntax")

(***************************************************************************)
(* Wrapper: SDJWTIssuerWrapper                                             *)
(***************************************************************************)
NumDecoys == 1

\* EncodingKeyValue::new / from_rsa_pem / from_ed_pem: a key and its type.
EncodingKeyValue(type) == [type |-> type, key |-> IssuerKey]

\* SDJWTIssuerWrapper::new: the key and sign_alg go to the engine as given.
SDJWTIssuerWrapperNew(issuer_key, sign_alg) ==
    [wrapped |-> EngineIssuerNew(issuer_key, sign_alg)]

Issuer == SDJWTIssuerWrapperNew(EncodingKeyValue("EC"), <<"ES256">>)

\* The body the four issue_sd_jwt_* methods share: parse user_claims, lock
\* the engine, issue with the method's strategy, convert the error.
IssueWith(self, strategy, user_claims, holder_key, add_decoy_claims, serialization_format) ==
    LET user_claims_value == from_str(user_claims)
        r == EngineIssue(self.wrapped, user_claims_value.v, strategy, holder_key,
                         IF add_decoy_claims THEN NumDecoys ELSE 0, serialization_format)
    IN IF ~user_claims_value.ok
       THEN [st |-> "err", err |-> UnspecifiedFrom(SerdeError), raised |-> SerdeError,
             text |-> GarbageText]
       ELSE IF r.err.kind # "none"
       THEN [st |-> "err", err |-> IntoSDJWTError(r.err), raised |-> r.err,
             text |-> GarbageText]
       ELSE [st |-> "ok", err |-> NoErr, raised |-> NoErr, text |-> r.text]

(***************************************************************************)
(* Wrapper: SDJWTHolderWrapper                                             *)
(***************************************************************************)
HolderWrapperNew(sd_jwt_with_disclosures, serialization_format) ==
    LET wrapped == EngineHolderNew(sd_jwt_with_disclosures, serialization_format)
    IN IF wrapped.err.kind # "none"
       THEN [st |-> "err", err |-> UnspecifiedFrom(wrapped.err), raised |-> wrapped.err,
             wrapped |-> wrapped]
       ELSE [st |-> "ok", err |-> NoErr, raised |-> NoErr, wrapped |-> wrapped]

\* convert: a string is kept, a number or an object becomes its JSON text;
\* any other value panics.
convert(map) ==
    [panic |-> \E k \in DOMAIN map : map[k].t \notin {"string", "number", "object"},
     hashmap |-> [k \in DOMAIN map |->
                    IF is_string(map[k]) THEN map[k].s ELSE to_string(map[k])]]

\* A loop body that inserts whatever the text parses as, numbers too.
ValueToInsertAsParsed(value) ==
    IF from_str(value).ok THEN from_str(value).v ELSE JStr(value)

\* The loop body of create_presentation: the text parsed as JSON, or the
\* text as a string when it does not parse or parses as a number.
ValueToInsert(value) ==
    LET maybe_json_value == from_str(value)
        value_to_insert == IF maybe_json_value.ok THEN maybe_json_value.v ELSE JStr(value)
    IN IF is_number(value_to_insert) THEN JStr(value) ELSE value_to_insert

MapValue(hashmap) == [k \in DOMAIN hashmap |-> ValueToInsert(hashmap[k])]

\* A create_presentation that takes the disclosures it presents out of the
\* holder.
CreatePresentationTaking(holder, claims_to_disclose_json, nonce, aud, holder_key, sign_alg) ==
    LET claims_to_disclose_value == from_str(claims_to_disclose_json)
        claims_to_disclose_hash_map == convert(claims_to_disclose_value.v.m)
        map_value == MapValue(claims_to_disclose_hash_map.hashmap)
        r == EngineCreatePresentation(holder, map_value, nonce, aud, holder_key, sign_alg)
    IN IF \/ ~claims_to_disclose_value.ok
          \/ ~is_object(claims_to_disclose_value.v)
          \/ claims_to_disclose_hash_map.panic
       THEN [st |-> "panic", err |-> NoErr, raised |-> NoErr, text |-> GarbageText,
             map_value |-> NoMap, wrapped |-> holder]
       ELSE [st |-> "ok", err |-> NoErr, raised |-> NoErr, text |-> r.text,
             map_value |-> map_value,
             wrapped |-> [holder EXCEPT !.disclosures =
                             SelectSeq(@, LAMBDA seg : seg \notin Range(r.text.disclosures))]]

\* A create_presentation that encodes a disclosure of its own for every
\* requested claim instead of choosing among the issued ones.
CreatePresentationFabricating(holder, claims_to_disclose_json, nonce, aud, holder_key, sign_alg) ==
    LET claims_to_disclose_value == from_str(claims_to_disclose_json)
        claims_to_disclose_hash_map == convert(claims_to_disclose_value.v.m)
        map_value == MapValue(claims_to_disclose_hash_map.hashmap)
        keys == SortedKeys(DOMAIN map_value)
    IN IF \/ ~claims_to_disclose_value.ok
          \/ ~is_object(claims_to_disclose_value.v)
          \/ claims_to_disclose_hash_map.panic
       THEN [st |-> "panic", err |-> NoErr, raised |-> NoErr, text |-> GarbageText,
             map_value |-> NoMap, wrapped |-> holder]
       ELSE [st |-> "ok", err |-> NoErr, raised |-> NoErr,
             text |-> TokenText(holder.fmt, holder.jws,
                        [i \in 1..Len(keys) |->
                            EncodeDisclosure(<<"salt", "own">>, keys[i], map_value[keys[i]])],
                        <<>>),
             map_value |-> map_value, wrapped |-> holder]

CreatePresentationWrapper(holder, claims_to_disclose_json, nonce, aud, holder_key, sign_alg) ==
    LET claims_to_disclose_value == from_str(claims_to_disclose_json)
        claims_to_disclose_hash_map == convert(claims_to_disclose_value.v.m)
        map_value == MapValue(claims_to_disclose_hash_map.hashmap)
        r == EngineCreatePresentation(holder, map_value, nonce, aud, holder_key, sign_alg)
    IN IF \/ ~claims_to_disclose_value.ok
          \/ ~is_object(claims_to_disclose_value.v)
          \/ claims_to_disclose_hash_map.panic
       THEN [st |-> "panic", err |-> NoErr, raised |-> NoErr, text |-> GarbageText,
             map_value |-> NoMap, wrapped |-> holder]
       ELSE IF r.err.kind # "none"
       THEN [st |-> "err", err |-> IntoSDJWTError(r.err), raised |-> r.err,
             text |-> GarbageText, map_value |-> map_value, wrapped |-> r.holder]
       ELSE [st |-> "ok", err |-> NoErr, raised |-> NoErr, text |-> r.text,
             map_value |-> map_value, wrapped |-> r.holder]

(***************************************************************************)
(* Wrapper: SDJWTVerifierWrapper                                           *)
(***************************************************************************)
\* The key callback: the decoding of the key text the header's algorithm
\* selects; an unsupported algorithm or an undecodable key panics.
KeyCallbackPanics(public_key, alg) ==
    KeyFamily(alg) = "unsupported" \/ public_key.pem # KeyFamily(alg)

\* A construction that hands out a verifier although the engine failed.
VerifierWrapperNewLenient(sd_jwt_presentation, public_key, expected_aud, expected_nonce, serialization_format) ==
    [st |-> "ok", err |-> NoErr, raised |-> NoErr,
     wrapped |-> [verified_claims |-> Unpack(sd_jwt_presentation.jws.payload,
                                             sd_jwt_presentation.disclosures).v,
                  payload |-> sd_jwt_presentation.jws.payload]]

NoVerifier == [verified_claims |-> JNull, payload |-> JNull]

VerifierWrapperNew(sd_jwt_presentation, public_key, expected_aud, expected_nonce, serialization_format) ==
    LET wrap_value == EngineVerifierNew(sd_jwt_presentation, public_key.key, expected_aud,
                                        expected_nonce, serialization_format)
    IN IF /\ sd_jwt_presentation.fmt = serialization_format
          /\ KeyCallbackPanics(public_key, sd_jwt_presentation.jws.alg)
       THEN [st |-> "panic", err |-> NoErr, raised |-> NoErr, wrapped |-> NoVerifier]
       ELSE IF wrap_value.err.kind # "none"
       THEN [st |-> "err", err |-> UnspecifiedFrom(wrap_value.err),
             raised |-> wrap_value.err, wrapped |-> NoVerifier]
       ELSE [st |-> "ok", err |-> NoErr, raised |-> NoErr,
             wrapped |-> [verified_claims |-> wrap_value.v,
                          payload |-> sd_jwt_presentation.jws.payload]]

\* A getter that returns the payload as it was signed.
get_signed_payload(verifier) == to_string(verifier.wrapped.payload)

get_verified_claims(verifier) == to_string(verifier.wrapped.verified_claims)

\* A verify that keeps the candidate as the verified claims from then on.
verify_adopting(verifier, user_claims_json) ==
    LET user_claims_json_obj == from_str(user_claims_json)
    IN IF ~user_claims_json_obj.ok \/ ~is_object(user_claims_json_obj.v)
       THEN [st |-> "panic", result |-> FALSE, wrapped |-> verifier.wrapped]
       ELSE [st |-> "ok",
             result |-> user_claims_json_obj.v.m = verifier.wrapped.verified_claims.m,
             wrapped |-> [verifier.wrapped EXCEPT !.verified_claims = user_claims_json_obj.v]]

\* verify: both texts parsed and unwrapped as objects, the maps compared;
\* &self, so the wrapped verifier is after the call what it was before.
verify(verifier, user_claims_json) ==
    LET user_claims_json_obj == from_str(user_claims_json)
        verified_claims_json_obj == from_str(get_verified_claims(verifier))
    IN IF \/ ~user_claims_json_obj.ok
          \/ ~is_object(user_claims_json_obj.v)
          \/ ~verified_claims_json_obj.ok
          \/ ~is_object(verified_claims_json_obj.v)
       THEN [st |-> "panic", result |-> FALSE, wrapped |-> verifier.wrapped]
       ELSE [st |-> "ok",
             result |-> user_claims_json_obj.v.m = verified_claims_json_obj.v.m,
             wrapped |-> verifier.wrapped]

(***************************************************************************)
(* Inputs                                                                  *)
(***************************************************************************)
S(x) == JStr(<<x>>)

DocCatalogue ==
    << JObj((<<"sub">> :> S("abc")) @@
            (<<"address">> :> JObj((<<"street">> :> S("X")) @@ (<<"city">> :> S("Y"))))),
       JObj((<<"iat">> :> JNum(<<"1", "7">>)) @@ (<<"sub">> :> S("abc"))),
       JObj((<<"ok">> :> JBool(TRUE)) @@ (<<"sub">> :> S("abc"))),
       JObj(<<"tags">> :> JArr(<<S("p"), S("r")>>)),
       JObj(<<"o">> :> JObj((<<"n">> :> JNum(<<"1">>)) @@ (<<"l">> :> JArr(<<S("p")>>)))),
       JObj((<<"n">> :> JNull) @@ (<<"b">> :> S("false"))) >>

MaxDoc == 5

Docs == {DocCatalogue[i] : i \in 1..Min(MaxDoc, Len(DocCatalogue))}

NotJsonText == <<"{", "q">>
NotObjectText == <<"[", "1", "]">>

UserClaimsTexts == {to_string(d) : d \in Docs} \cup {NotJsonText, NotObjectText}

Formats == {"Compact", "JSON"}

NoStrategyPaths == {}
CustomPathSets ==
    { {<<KeyStep(<<"sub">>)>>},
      {<<KeyStep(<<"address">>), KeyStep(<<"city">>)>>},
      {<<KeyStep(<<"tags">>), IdxStep(3)>>} }

\* What a holder may ask to disclose of document doc.
ClaimsToDiscloseTexts(doc) ==
    {to_string(doc), to_string(JObj(NoMap)), NotJsonText, NotObjectText}
    \cup {to_string(JObj(k :> doc.m[k])) : k \in DOMAIN doc.m}
    \cup {to_string(JObj(k :> JStr(to_string(doc.m[k])))) : k \in DOMAIN doc.m}
    \cup {to_string(JObj(MapInsert(doc.m, <<"country">>, v))) : v \in {S("DE"), JBool(TRUE)}}
    \cup {to_string(JObj(<<"address">> :> JObj(<<"city">> :> S("Y"))))}

Nonce == "n1"
Aud == "a1"
KeyBindingInputs ==
    { [nonce |-> <<>>, aud |-> <<>>, holder_key |-> <<>>, sign_alg |-> <<>>],
      [nonce |-> <<Nonce>>, aud |-> <<Aud>>, holder_key |-> <<HolderKey>>, sign_alg |-> <<>>],
      [nonce |-> <<Nonce>>, aud |-> <<Aud>>, holder_key |-> <<HolderKey>>,
       sign_alg |-> <<"bogus">>] }

IssuerPublicKey == [pem |-> "EC", key |-> IssuerKey]
OtherPublicKey == [pem |-> "EC", key |-> "other-key"]
GarbagePublicKey == [pem |-> "garbage", key |-> "none"]

\* The arguments of a verifier construction for a presentation text: the
\* right ones, and each of them wrong in turn.
VerifierInputs(text) ==
    LET right == IF text.fmt \in Formats THEN text.fmt ELSE "Compact"
        wrong == IF right = "Compact" THEN "JSON" ELSE "Compact"
        expected == IF text.kb = <<>> THEN {<<<<>>, <<>>>>, <<<<Aud>>, <<Nonce>>>>}
                    ELSE {<<<<Aud>>, <<Nonce>>>>, <<<<"a2">>, <<Nonce>>>>, <<<<Aud>>, <<"n2">>>>}
    IN { [public_key |-> IssuerPublicKey, expected_aud |-> e[1], expected_nonce |-> e[2],
          format |-> right] : e \in expected }
       \cup { [public_key |-> k, expected_aud |-> <<>>, expected_nonce |-> <<>>,
               format |-> right] : k \in {OtherPublicKey, GarbagePublicKey} }
       \cup { [public_key |-> IssuerPublicKey, expected_aud |-> <<>>, expected_nonce |-> <<>>,
               format |-> wrong] }

RECURSIVE Reverse(_)
Reverse(seq) == IF seq = <<>> THEN <<>> ELSE Reverse(Tail(seq)) \o <<Head(seq)>>

\* The text of an object with its members written last key first.
ReversedText(v) == <<"{">> \o MembersText(v.m, Reverse(SortedKeys(DOMAIN v.m))) \o <<"}">>

\* What a caller may hand to verify when the verified claims are claims:
\* the same object in either key order, the issued document, an object with
\* a key more, a key less or another value, and text that is no object.
UserClaimsJsonTexts(claims, doc) ==
    {to_string(claims), ReversedText(claims), to_string(doc), NotJsonText, NotObjectText,
     to_string(JObj(MapInsert(claims.m, <<"country">>, S("DE"))))}
    \cup {to_string(JObj(MapRemove(claims.m, k))) : k \in DOMAIN claims.m \cap {<<"sub">>}}
    \cup {to_string(JObj(MapInsert(claims.m, k, S("forged")))) :
             k \in DOMAIN claims.m \cap {<<"sub">>, <<"o">>}}

(***************************************************************************)
(* State                                                                   *)
(***************************************************************************)
VARIABLES
    issued,     \* the result of the issuer call, with its arguments
    holder,     \* the result of SDJWTHolderWrapper::new
    pres,       \* the result of create_presentation, with its arguments
    wire,       \* the presentation text handed to the verifier
    verifier,   \* the result of SDJWTVerifierWrapper::new, with its arguments
    out,        \* what get_verified_claims returned
    checked,    \* the last verify call: its argument and what it returned
    issuer,     \* the SDJWTIssuerWrapper the issuer calls are made on
    threads,    \* each thread's position in its call on a shared wrapper
    mutex       \* the Mutex of each shared wrapper: the thread holding it

vars == <<issued, holder, pres, wire, verifier, out, checked, issuer, threads, mutex>>

None == [st |-> "none"]

NumThreads == 2
Threads == 1..NumThreads
Wrappers == {"issuer", "holder"}

\* A thread outside any call, and a Mutex nobody holds.
Idle == [pc |-> "idle", on |-> "none", arg |-> 0, st |-> "none", locks |-> 0, n |-> 0]
Free == 0

NothingCalled ==
    /\ issued = None
    /\ holder = None
    /\ pres = None
    /\ wire = None
    /\ verifier = None
    /\ out = <<>>
    /\ checked = None
    /\ threads = [t \in Threads |-> Idle]
    /\ mutex = [w \in Wrappers |-> Free]

Init ==
    /\ NothingCalled
    /\ issuer = Issuer

(***************************************************************************)
(* Issuer calls                                                            *)
(***************************************************************************)
Issue(strategy, user_claims, holder_key, add_decoy_claims, serialization_format) ==
    /\ issued.st = "none"
    /\ issued' = [res |-> IssueWith(issuer, strategy, user_claims, holder_key, add_decoy_claims,
                                    serialization_format),
                  claims |-> from_str(user_claims).v, strategy |-> strategy,
                  holder_key |-> holder_key, add_decoy_claims |-> add_decoy_claims,
                  format |-> serialization_format] @@ 
                 [st |-> IssueWith(issuer, strategy, user_claims, holder_key, add_decoy_claims,
                                   serialization_format).st]
    /\ UNCHANGED <<holder, pres, wire, verifier, out, checked, issuer, threads, mutex>>

issue_sd_jwt_no_sd_claims ==
    \E user_claims \in UserClaimsTexts, holder_key \in {<<>>, <<HolderKey>>},
       add_decoy_claims \in BOOLEAN, serialization_format \in Formats :
        Issue([kind |-> "NoSDClaims", paths |-> NoStrategyPaths], user_claims, holder_key,
              add_decoy_claims, serialization_format)

issue_sd_jwt_top_level ==
    \E user_claims \in UserClaimsTexts, holder_key \in {<<>>, <<HolderKey>>},
       add_decoy_claims \in BOOLEAN, serialization_format \in Formats :
        Issue([kind |-> "TopLevel", paths |-> NoStrategyPaths], user_claims, holder_key,
              add_decoy_claims, serialization_format)

issue_sd_jwt_all_level ==
    \E user_claims \in UserClaimsTexts, holder_key \in {<<>>, <<HolderKey>>},
       add_decoy_claims \in BOOLEAN, serialization_format \in Formats :
        Issue([kind |-> "AllLevels", paths |-> NoStrategyPaths], user_claims, holder_key,
              add_decoy_claims, serialization_format)

issue_sd_jwt_custom ==
    \E user_claims \in UserClaimsTexts, json_paths \in CustomPathSets,
       holder_key \in {<<>>, <<HolderKey>>},
       add_decoy_claims \in BOOLEAN, serialization_format \in Formats :
        Issue([kind |-> "Custom", paths |-> json_paths], user_claims, holder_key,
              add_decoy_claims, serialization_format)

(***************************************************************************)
(* Holder calls                                                            *)
(***************************************************************************)
SDJWTHolderWrapper_new ==
    /\ issued.st = "ok"
    /\ holder.st = "none"
    /\ \E text \in {issued.res.text, GarbageText}, serialization_format \in Formats :
          holder' = [st |-> HolderWrapperNew(text, serialization_format).st,
                     res |-> HolderWrapperNew(text, serialization_format)]
    /\ UNCHANGED <<issued, pres, wire, verifier, out, checked, issuer, threads, mutex>>

MaxCalls == 3

\* One call of create_presentation on the holder, the calls-th on it.
CreatePresentationCall(calls) ==
    /\ holder.st = "ok"
    /\ \E claims_to_disclose_json \in ClaimsToDiscloseTexts(issued.claims),
          kb \in KeyBindingInputs :
          LET r == CreatePresentationWrapper(holder.res.wrapped, claims_to_disclose_json,
                                             kb.nonce, kb.aud, kb.holder_key, kb.sign_alg)
          IN /\ pres' = [st |-> r.st, res |-> r,
                         claims_to_disclose_json |-> claims_to_disclose_json, kb |-> kb,
                         calls |-> calls]
             /\ holder' = [holder EXCEPT !.res.wrapped = r.wrapped]
    /\ UNCHANGED <<issued, wire, verifier, out, checked, issuer, threads, mutex>>

create_presentation ==
    /\ pres.st = "none"
    /\ CreatePresentationCall(1)

create_presentation_again ==
    /\ pres.st # "none"
    /\ pres.calls < MaxCalls
    /\ wire.st = "none"
    /\ CreatePresentationCall(pres.calls + 1)

(***************************************************************************)
(* The presentation on its way to the verifier: handed over as it is, or   *)
(* altered by whoever carries it.                                          *)
(***************************************************************************)
Deliver(text, how) ==
    /\ wire.st = "none"
    /\ wire' = [st |-> "sent", text |-> text, how |-> how]
    /\ UNCHANGED <<issued, holder, pres, verifier, out, checked, issuer, threads, mutex>>

Send ==
    /\ pres.st = "ok"
    /\ Deliver(pres.res.text, "honest")

\* One disclosure appears twice in the list.
TamperDuplicate ==
    /\ pres.st = "ok"
    /\ \E i \in DOMAIN pres.res.text.disclosures :
          Deliver([pres.res.text EXCEPT !.disclosures = Append(@, @[i])], "duplicate")

AlteredDisclosure(seg, mode) ==
    IF mode = "malformed" THEN [seg EXCEPT !.wf = FALSE]
    ELSE [seg EXCEPT !.arr[Len(seg.arr)] = S("forged")]

\* One encoded disclosure is altered: into text that no longer decodes, or
\* into the encoding of another value.
TamperAlter ==
    /\ pres.st = "ok"
    /\ \E i \in DOMAIN pres.res.text.disclosures, mode \in {"malformed", "value"} :
          Deliver([pres.res.text EXCEPT
                      !.disclosures[i] = AlteredDisclosure(@, mode)], "altered")

\* A token whose issuer signed a digest for a key that is also a plain
\* claim of the same object.
CollidingToken(format) ==
    LET seg == EncodeDisclosure(Salt(<<KeyStep(<<"sub">>)>>), <<"sub">>, S("other"))
        payload == JObj((<<"sub">> :> S("abc")) @@ (SD_DIGESTS_KEY :> JArr(<<DigestOf(seg)>>))
                        @@ (DIGEST_ALG_KEY :> JStr(HashAlg)))
    IN TokenText(format, Sign(IssuerKey, "ES256", payload), <<seg>>, <<>>)

PresentColliding ==
    \E serialization_format \in Formats :
        Deliver(CollidingToken(serialization_format), "colliding")

\* A token of the issuer whose header names an algorithm the key callback
\* has no arm for.
UnsupportedAlgToken(format) ==
    LET payload == JObj((<<"sub">> :> S("abc")) @@ (DIGEST_ALG_KEY :> JStr(HashAlg)))
    IN TokenText(format, Sign(IssuerKey, "HS256", payload), <<>>, <<>>)

\* Such a token comes from elsewhere: the issuer here has issued none.
PresentUnsupportedAlg ==
    /\ issued.st = "err"
    /\ \E serialization_format \in Formats :
          Deliver(UnsupportedAlgToken(serialization_format), "unsupported")

(***************************************************************************)
(* Verifier calls                                                          *)
(***************************************************************************)
SDJWTVerifierWrapper_new ==
    /\ wire.st = "sent"
    /\ verifier.st = "none"
    /\ \E in \in VerifierInputs(wire.text) :
          LET r == VerifierWrapperNew(wire.text, in.public_key, in.expected_aud,
                                      in.expected_nonce, in.format)
          IN verifier' = [st |-> r.st, res |-> r, in |-> in]
    /\ UNCHANGED <<issued, holder, pres, wire, out, checked, issuer, threads, mutex>>

GetVerifiedClaims ==
    /\ verifier.st = "ok"
    /\ out' = <<get_verified_claims(verifier.res)>>
    /\ UNCHANGED <<issued, holder, pres, wire, verifier, checked, issuer, threads, mutex>>

verify_call ==
    /\ verifier.st = "ok"
    /\ \E user_claims_json \in UserClaimsJsonTexts(verifier.res.wrapped.verified_claims,
                                                  issued.claims) :
          LET r == verify(verifier.res, user_claims_json)
          IN /\ checked' = [st |-> r.st, user_claims_json |-> user_claims_json,
                            result |-> r.result]
             /\ verifier' = [verifier EXCEPT !.res.wrapped = r.wrapped]
    /\ UNCHANGED <<issued, holder, pres, wire, out, issuer, threads, mutex>>

Next ==
    \/ issue_sd_jwt_no_sd_claims
    \/ issue_sd_jwt_top_level
    \/ issue_sd_jwt_all_level
    \/ issue_sd_jwt_custom
    \/ SDJWTHolderWrapper_new
    \/ create_presentation
    \/ Send
    \/ TamperDuplicate
    \/ TamperAlter
    \/ PresentColliding
    \/ PresentUnsupportedAlg
    \/ SDJWTVerifierWrapper_new
    \/ GetVerifiedClaims

Spec == Init /\ [][Next]_vars

\* The calls on one verifier: a token issued, presented as it is, verified,
\* and then read and compared any number of times.
(***************************************************************************)
(* Issuers of every key type                                               *)
(***************************************************************************)
\* The sign_alg arguments: none, each known algorithm, one unknown.
SignAlgArgs == {<<>>} \cup {<<a>> : a \in SignAlgs \cup {"HS256"}}

InitIssuer ==
    /\ NothingCalled
    /\ \E type \in KeyTypes, sign_alg \in SignAlgArgs :
          issuer = SDJWTIssuerWrapperNew(EncodingKeyValue(type), sign_alg) 

NextIssuer ==
    \/ issue_sd_jwt_no_sd_claims
    \/ issue_sd_jwt_top_level
    \/ issue_sd_jwt_all_level
    \/ issue_sd_jwt_custom

SpecIssuer == InitIssuer /\ [][NextIssuer]_vars

NextVerify ==
    \/ issue_sd_jwt_all_level
    \/ SDJWTHolderWrapper_new
    \/ create_presentation
    \/ Send
    \/ SDJWTVerifierWrapper_new
    \/ GetVerifiedClaims
    \/ verify_call

SpecVerify == Init /\ [][NextVerify]_vars

\* The calls on one holder: a token issued, a holder built from it, and
\* create_presentation called on it again and again.
NextRepeat ==
    \/ issue_sd_jwt_all_level
    \/ SDJWTHolderWrapper_new
    \/ create_presentation
    \/ create_presentation_again

SpecRepeat == Init /\ [][NextRepeat]_vars

(***************************************************************************)
(* What the properties below read off a state                              *)
(***************************************************************************)
HonestRun == wire.st = "sent" /\ wire.how = "honest"

\* The verifier was given the issuer's key and the token's own format.
RightKeyAndFormat ==
    /\ verifier.st # "none"
    /\ verifier.in.public_key = IssuerPublicKey
    /\ verifier.in.format = wire.text.fmt

\* ... and expects exactly the key binding the presentation carries.
RightInputs ==
    /\ RightKeyAndFormat
    /\ IF wire.text.kb = <<>>
       THEN verifier.in.expected_aud = <<>> /\ verifier.in.expected_nonce = <<>>
       ELSE verifier.in.expected_aud = <<Aud>> /\ verifier.in.expected_nonce = <<Nonce>>

NoKeyBindingAsked ==
    pres.kb.nonce = <<>> /\ pres.kb.aud = <<>> /\ pres.kb.holder_key = <<>>

\* c names every claim of d at every level.
RECURSIVE Names(_, _)
Names(c, d) ==
    IF is_object(d)
    THEN /\ is_object(c)
         /\ DOMAIN d.m \subseteq DOMAIN c.m
         /\ \A k \in DOMAIN d.m : Names(c.m[k], d.m[k])
    ELSE IF is_array(d)
    THEN /\ is_array(c)
         /\ Len(c.a) >= Len(d.a)
         /\ \A i \in DOMAIN d.a : Names(c.a[i], d.a[i])
    ELSE TRUE

\* v holds nothing but what the protected value p shows openly or a
\* disclosure of discs, referenced from p by its digest, reveals.
RECURSIVE Disclosed(_, _, _)
Disclosed(v, p, discs) ==
    IF is_object(v)
    THEN /\ is_object(p)
         /\ \A k \in DOMAIN v.m :
               /\ k \notin {SD_DIGESTS_KEY, DIGEST_ALG_KEY, SD_LIST_PREFIX}
               /\ \/ /\ k \in DOMAIN p.m
                     /\ Disclosed(v.m[k], p.m[k], discs)
                  \/ /\ SD_DIGESTS_KEY \in DOMAIN p.m
                     /\ \E seg \in Range(discs) :
                           /\ IsObjectDisclosure(seg)
                           /\ DisclosureKey(seg) = k
                           /\ DigestOf(seg) \in Range(p.m[SD_DIGESTS_KEY].a)
                           /\ Disclosed(v.m[k], DisclosureValue(seg), discs)
    ELSE IF is_array(v)
    THEN /\ is_array(p)
         /\ \A i \in DOMAIN v.a : \E j \in DOMAIN p.a :
               IF IsDigestMarker(p.a[j])
               THEN \E seg \in Range(discs) :
                       /\ IsArrayDisclosure(seg)
                       /\ DigestOf(seg) = p.a[j].m[SD_LIST_PREFIX]
                       /\ Disclosed(v.a[i], DisclosureValue(seg), discs)
               ELSE Disclosed(v.a[i], p.a[j], discs)
    ELSE v = p /\ ~IsDigest(v)

\* The digests of an object's _sd array that no disclosure of discs resolves.
Unresolved(p, discs) ==
    IF is_object(p) /\ SD_DIGESTS_KEY \in DOMAIN p.m
    THEN {d \in Range(p.m[SD_DIGESTS_KEY].a) : \A seg \in Range(discs) : DigestOf(seg) # d}
    ELSE {}

(***************************************************************************)
(* C1  Round trip                                                          *)
(***************************************************************************)
C1Case ==
    /\ issued.st = "ok"
    /\ issued.strategy.kind = "AllLevels"
    /\ issued.holder_key = <<>>
    /\ pres.st # "none"
    /\ pres.claims_to_disclose_json = to_string(issued.claims)
    /\ NoKeyBindingAsked

\* C1: a document issued with AllLevels and presented with claims_to_disclose
\* equal to the document yields a presentation, and a verifier built from it
\* with the right arguments holds verified claims equal to the document.
C1_RoundTrip ==
    C1Case =>
        /\ pres.st = "ok"
        /\ (HonestRun /\ RightInputs) =>
              /\ verifier.st = "ok"
              /\ verifier.res.wrapped.verified_claims = issued.claims
              /\ out # <<>> => from_str(out[1]).v = issued.claims

(***************************************************************************)
(* C2  Subset invariant                                                    *)
(***************************************************************************)
\* C2: every disclosure segment of a presentation returned by
\* create_presentation is one of the issued token's segments, and there are
\* no more of them than were issued.
C2_PresentationSubset ==
    pres.st = "ok" =>
        /\ \A i \in DOMAIN pres.res.text.disclosures :
              pres.res.text.disclosures[i] \in Range(issued.res.text.disclosures)
        /\ Len(pres.res.text.disclosures) <= Len(issued.res.text.disclosures)

\* A presentation that carries some, not all, of the issued disclosures.
C2_ProperSubsetPresented ==
    /\ pres.st = "ok"
    /\ Len(pres.res.text.disclosures) > 0
    /\ Len(pres.res.text.disclosures) < Len(issued.res.text.disclosures)

(***************************************************************************)
(* C3  Full disclosure is complete                                         *)
(***************************************************************************)
C3Case ==
    /\ issued.st = "ok"
    /\ issued.strategy.kind = "AllLevels"
    /\ issued.format = "Compact"
    /\ issued.holder_key = <<>>
    /\ pres.st # "none"
    /\ from_str(pres.claims_to_disclose_json).ok
    /\ Names(from_str(pres.claims_to_disclose_json).v, issued.claims)
    /\ NoKeyBindingAsked

\* C3: when claims_to_disclose names every claim of a document issued with
\* AllLevels in compact form, the presentation has as many "~"-separated
\* segments as the issued token.
C3_FullDisclosureComplete ==
    C3Case =>
        /\ pres.st = "ok"
        /\ Len(SplitTilde(pres.res.text)) = Len(SplitTilde(issued.res.text))

(***************************************************************************)
(* C4  An absent claim is ignored                                          *)
(***************************************************************************)
AbsentKey == <<"country">>

C4Case ==
    /\ pres.st # "none"
    /\ from_str(pres.claims_to_disclose_json).ok
    /\ is_object(from_str(pres.claims_to_disclose_json).v)
    /\ AbsentKey \in DOMAIN from_str(pres.claims_to_disclose_json).v.m
    /\ AbsentKey \notin DOMAIN issued.claims.m
    /\ pres.kb.sign_alg = <<>>

\* C4: naming a claim the issued token does not have leaves
\* create_presentation successful, with no disclosure for that claim and
\* without the claim among the verified claims.
C4_AbsentClaimIgnored ==
    C4Case =>
        /\ pres.st = "ok"
        /\ \A i \in DOMAIN pres.res.text.disclosures :
              IsObjectDisclosure(pres.res.text.disclosures[i])
                 => DisclosureKey(pres.res.text.disclosures[i]) # AbsentKey
        /\ (HonestRun /\ verifier.st = "ok")
              => AbsentKey \notin DOMAIN verifier.res.wrapped.verified_claims.m

(***************************************************************************)
(* C5  Duplicate rejection                                                 *)
(***************************************************************************)
\* C5: a verifier built from a presentation with one digest twice fails with
\* DuplicateDigestError, and from one whose disclosed key is also a plain
\* sibling fails with DuplicateKeyError; the caller gets that kind and no
\* verified claims.
C5_DuplicateKinds ==
    (wire.st = "sent" /\ RightKeyAndFormat /\ verifier.st # "panic") =>
        /\ wire.how = "duplicate" =>
              /\ verifier.st = "err"
              /\ verifier.res.err.kind = "DuplicateDigestError"
              /\ verifier.res.wrapped = NoVerifier
        /\ wire.how = "colliding" =>
              /\ verifier.st = "err"
              /\ verifier.res.err.kind = "DuplicateKeyError"
              /\ verifier.res.wrapped = NoVerifier

(***************************************************************************)
(* C6  Key-binding check                                                   *)
(***************************************************************************)
KeyBindingMatches ==
    /\ wire.text.kb # <<>>
    /\ <<wire.text.kb[1].aud>> = verifier.in.expected_aud
    /\ <<wire.text.kb[1].nonce>> = verifier.in.expected_nonce

\* C6: with an expected audience and nonce, construction succeeds only if
\* the presentation carries a key-binding JWT with exactly that aud and
\* nonce; otherwise it fails with InvalidInput.
C6_KeyBindingChecked ==
    (/\ HonestRun
     /\ RightKeyAndFormat
     /\ verifier.in.expected_aud # <<>>
     /\ verifier.in.expected_nonce # <<>>) =>
        /\ verifier.st = "ok" => KeyBindingMatches
        /\ ~KeyBindingMatches =>
              verifier.st = "err" /\ verifier.res.err.kind = "InvalidInput"

C8_OnlyDisclosed ==
    verifier.st = "ok" =>
        /\ Disclosed(verifier.res.wrapped.verified_claims, wire.text.jws.payload,
                     wire.text.disclosures)
        /\ out # <<>> =>
              /\ from_str(out[1]).ok
              /\ Disclosed(from_str(out[1]).v, wire.text.jws.payload, wire.text.disclosures)

\* An accepted presentation with a decoy, an undisclosed claim and a
\* disclosure, whose verified claims were read.
C8_DecoyAndUndisclosedLeftOut ==
    /\ verifier.st = "ok"
    /\ out # <<>>
    /\ issued.add_decoy_claims
    /\ wire.text.disclosures # <<>>
    /\ Len(wire.text.disclosures) < Len(issued.res.text.disclosures)
    /\ Cardinality(Unresolved(wire.text.jws.payload, wire.text.disclosures)) >= 2

(***************************************************************************)
(* C9  Verification is atomic                                              *)
(***************************************************************************)
EveryStepSucceeded ==
    /\ wire.text.fmt = verifier.in.format
    /\ SignatureOk(wire.text.jws, verifier.in.public_key.key)
    /\ ParseToken(wire.text, verifier.in.format).kind = "none"
    /\ Unpack(wire.text.jws.payload, wire.text.disclosures).err.kind = "none"
    /\ KeyBindingError(wire.text, verifier.in.expected_aud,
                       verifier.in.expected_nonce).kind = "none"

\* C9: a verifier exists only when the signature check, the digest set, the
\* substitution and the key-binding check all succeeded; after a failure
\* there is an error, no verifier, and nothing get_verified_claims could
\* return.
C9_Atomic ==
    /\ verifier.st = "ok" => EveryStepSucceeded
    /\ verifier.st \in {"err", "panic"} =>
          /\ verifier.res.wrapped = NoVerifier
          /\ out = <<>>
    /\ (verifier.st # "none" /\ ~EveryStepSucceeded /\ verifier.st # "panic") =>
          verifier.st = "err" /\ verifier.res.err.kind # "none"
    /\ out # <<>> => verifier.st = "ok" /\ EveryStepSucceeded

\* A presentation whose signature, digest set and substitution are in order
\* is rejected at the last step, the key-binding check.
C9_RejectedAtLastStep ==
    /\ verifier.st = "err"
    /\ wire.text.fmt = verifier.in.format
    /\ SignatureOk(wire.text.jws, verifier.in.public_key.key)
    /\ ParseToken(wire.text, verifier.in.format).kind = "none"
    /\ Unpack(wire.text.jws.payload, wire.text.disclosures).err.kind = "none"
    /\ Unpack(wire.text.jws.payload, wire.text.disclosures).v # JObj(NoMap)
    /\ verifier.res.raised.kind = "InvalidInput"

(***************************************************************************)
(* C10  Typed error propagation                                            *)
(***************************************************************************)
SameError(res) ==
    (res.st = "err" /\ res.raised.kind \in ErrorKinds) =>
        /\ res.err.kind = res.raised.kind
        /\ res.err.message = res.raised.message
        /\ res.raised.kind = "IndexOutOfBounds" =>
              res.err.idx = res.raised.idx /\ res.err.length = res.raised.length

\* C10: a failure of kind K raised under an issue_sd_jwt_* method,
\* SDJWTHolderWrapper::new, create_presentation or SDJWTVerifierWrapper::new
\* reaches the caller with kind K and its message (for IndexOutOfBounds, its
\* idx and length) unchanged.
C10_TypedErrors ==
    /\ issued.st # "none" => SameError(issued.res)
    /\ holder.st # "none" => SameError(holder.res)
    /\ pres.st # "none" => SameError(pres.res)
    /\ verifier.st # "none" => SameError(verifier.res)

(***************************************************************************)
(* C11  Unsupported algorithm is an error, not an abort                    *)
(***************************************************************************)
\* The key callback is reached and has no key to return: the header's
\* algorithm is outside the supported set, or the key text does not decode
\* for it.
C11Case ==
    /\ wire.st = "sent"
    /\ verifier.st # "none"
    /\ verifier.in.format = wire.text.fmt
    /\ \/ KeyFamily(wire.text.jws.alg) = "unsupported"
       \/ verifier.in.public_key.pem # KeyFamily(wire.text.jws.alg)

\* C11: when the header names an unsupported algorithm or the public-key text
\* cannot be decoded for the named algorithm, SDJWTVerifierWrapper::new
\* returns an error and does not abort.
C11_UnsupportedIsError ==
    C11Case => verifier.st = "err"

(***************************************************************************)
(* C12  No abort on malformed caller input                                 *)
(***************************************************************************)
\* claims_to_disclose is no JSON, no object, or has an array, a boolean or
\* null under a top-level key.
MalformedClaimsToDisclose ==
    \/ ~from_str(pres.claims_to_disclose_json).ok
    \/ ~is_object(from_str(pres.claims_to_disclose_json).v)
    \/ \E k \in DOMAIN from_str(pres.claims_to_disclose_json).v.m :
          from_str(pres.claims_to_disclose_json).v.m[k].t \in {"array", "bool", "null"}

NotAnObjectText(txt) == ~from_str(txt).ok \/ ~is_object(from_str(txt).v)

\* C12: create_presentation on malformed claims_to_disclose returns an error
\* of kind DataFieldMismatch or ConversionError, and verify on text that is
\* no JSON object does not abort.
C12_NoAbort ==
    /\ (pres.st # "none" /\ MalformedClaimsToDisclose) =>
          /\ pres.st = "err"
          /\ pres.res.err.kind \in {"DataFieldMismatch", "ConversionError"}
    /\ (checked.st # "none" /\ NotAnObjectText(checked.user_claims_json)) =>
          checked.st # "panic"

(***************************************************************************)
(* C14  verify is structural equality and changes nothing                  *)
(***************************************************************************)
\* The verified claims the verifier was constructed with.
ConstructedClaims == Unpack(wire.text.jws.payload, wire.text.disclosures).v

\* C14: verify answers true exactly when the candidate object has the key
\* set of the verified claims and equal values under every key; the verified
\* claims stay what construction made them, so verify and
\* get_verified_claims answer the same however often they are called.
C14_VerifyIsEquality ==
    /\ verifier.st = "ok" => verifier.res.wrapped.verified_claims = ConstructedClaims
    /\ out # <<>> => out[1] = to_string(ConstructedClaims)
    /\ checked.st = "ok" =>
          (checked.result <=>
              /\ DOMAIN from_str(checked.user_claims_json).v.m = DOMAIN ConstructedClaims.m
              /\ \A k \in DOMAIN ConstructedClaims.m :
                    from_str(checked.user_claims_json).v.m[k] = ConstructedClaims.m[k])

\* verify answered true for the verified claims written in another key
\* order, after get_verified_claims was read.
C14_AcceptedInOtherKeyOrder ==
    /\ checked.st = "ok"
    /\ checked.result
    /\ out # <<>>
    /\ Cardinality(DOMAIN ConstructedClaims.m) >= 2
    /\ checked.user_claims_json # to_string(ConstructedClaims)

(***************************************************************************)
(* C13  Scalar-vs-string asymmetry                                         *)
(***************************************************************************)
\* create_presentation got as far as handing a map to the engine.
HandedOver == pres.st \in {"ok", "err"}

\* The caller's claims_to_disclose object and the map the engine was given.
CallerMap == from_str(pres.claims_to_disclose_json).v.m
HandedMap == pres.res.map_value

\* The text of a string value parses as a JSON value of one of the types.
TextIs(c, types) == is_string(c) /\ from_str(c.s).ok /\ from_str(c.s).v.t \in types

\* C13: of every top-level entry the engine is handed the object itself when
\* the caller gave an object, the parsed object or array when the caller gave
\* a string with such a text, and a string with the decimal text when the
\* caller gave a number or a string with a number's text; never a number.
C13_ScalarVsString ==
    HandedOver =>
        LET caller == CallerMap
            handed == HandedMap
        IN /\ DOMAIN handed = DOMAIN caller
           /\ \A k \in DOMAIN caller :
                 /\ is_object(caller[k]) => handed[k] = caller[k]
                 /\ TextIs(caller[k], {"object", "array"})
                       => handed[k] = from_str(caller[k].s).v
                 /\ is_number(caller[k]) => handed[k] = JStr(caller[k].s)
                 /\ TextIs(caller[k], {"number"}) => handed[k] = caller[k]
                 /\ ~is_number(handed[k])

\* The engine was handed a map for a caller's object with a number in it.
C13_NumberHandedAsString ==
    /\ pres.st = "ok"
    /\ \E k \in DOMAIN CallerMap : is_number(CallerMap[k]) /\ is_string(HandedMap[k])

(***************************************************************************)
(* C18  String claim values are passed through unchanged                   *)
(***************************************************************************)
\* C18: a top-level string of claims_to_disclose whose text is not that of a
\* JSON object, array or number reaches the engine as the same string.
C18_StringsPassThrough ==
    HandedOver =>
        \A k \in DOMAIN CallerMap :
            (is_string(CallerMap[k]) /\ ~TextIs(CallerMap[k], {"object", "array", "number"}))
               => HandedMap[k] = CallerMap[k]

(***************************************************************************)
(* C15  Presentations are independent views                                *)
(***************************************************************************)
\* A holder built now from the issued token, in the format of the holder.
FreshHolder == HolderWrapperNew(issued.res.text, holder.res.wrapped.fmt).wrapped

CallsPerThread == 2

\* What a thread may call: issue_sd_jwt_all_level on the shared issuer or
\* create_presentation on the shared holder, with arguments that succeed,
\* fail in the wrapper before the lock, and fail in the engine.
ThreadCallArgs ==
    LET none == CHOOSE k \in KeyBindingInputs : k.nonce = <<>>
        bogus == CHOOSE k \in KeyBindingInputs : k.sign_alg # <<>>
    IN << [on |-> "issuer", text |-> to_string(DocCatalogue[2]), kb |-> none],
          [on |-> "issuer", text |-> NotJsonText, kb |-> none],
          [on |-> "issuer", text |-> NotObjectText, kb |-> none],
          [on |-> "holder", text |-> to_string(DocCatalogue[2]), kb |-> none],
          [on |-> "holder", text |-> NotJsonText, kb |-> none],
          [on |-> "holder", text |-> to_string(DocCatalogue[2]), kb |-> bogus] >>

\* What the call returns on the shared wrapper as it is now, computed as
\* the method computes it.
CallOutcome(on, text, kb) ==
    IF on = "issuer"
    THEN IssueWith(issuer, [kind |-> "AllLevels", paths |-> NoStrategyPaths], text,
                   <<HolderKey>>, FALSE, "Compact") @@ [wrapped |-> holder.res.wrapped]
    ELSE CreatePresentationWrapper(holder.res.wrapped, text, kb.nonce, kb.aud,
                                   kb.holder_key, kb.sign_alg)

\* Whether the call gets as far as self.wrapped.lock(): the issue methods
\* return Err when from_str fails, create_presentation panics on from_str,
\* as_object and convert, all of them before the lock.
ReachesLock(on, text, kb) ==
    IF on = "issuer" THEN from_str(text).ok
    ELSE CallOutcome(on, text, kb).st # "panic"

\* A guard that is kept when the call returns an error.
GuardKeptOnError(st) == st = "ok"

\* The MutexGuard is a local of the method: it is dropped when the method
\* returns, whatever it returns.
GuardDropped(st) == st \in {"ok", "err"}

ThreadCall ==
    \E t \in Threads, a \in DOMAIN ThreadCallArgs :
        /\ threads[t].pc = "idle"
        /\ threads[t].n < CallsPerThread
        /\ threads' = [threads EXCEPT ![t] = [pc |-> "called", on |-> ThreadCallArgs[a].on,
                                              arg |-> a, st |-> "none", locks |-> 0,
                                              n |-> threads[t].n + 1]]
        /\ UNCHANGED <<issued, holder, pres, wire, verifier, out, checked, issuer, mutex>>

ThreadParse ==
    \E t \in Threads :
        /\ threads[t].pc = "called"
        /\ \E call \in {ThreadCallArgs[threads[t].arg]} :
              threads' = [threads EXCEPT ![t] =
                  IF ReachesLock(call.on, call.text, call.kb)
                  THEN [@ EXCEPT !.pc = "parsed"]
                  ELSE [@ EXCEPT !.pc = "returning",
                                 !.st = CallOutcome(call.on, call.text, call.kb).st]]
        /\ UNCHANGED <<issued, holder, pres, wire, verifier, out, checked, issuer, mutex>>

ThreadLock ==
    \E t \in Threads :
        /\ threads[t].pc = "parsed"
        /\ mutex[threads[t].on] = Free
        /\ mutex' = [mutex EXCEPT ![threads[t].on] = t]
        /\ threads' = [threads EXCEPT ![t].pc = "locked", ![t].locks = @ + 1]
        /\ UNCHANGED <<issued, holder, pres, wire, verifier, out, checked, issuer>>

ThreadEngine ==
    \E t \in Threads :
        /\ threads[t].pc = "locked"
        /\ \E call \in {ThreadCallArgs[threads[t].arg]} :
           \E r \in {CallOutcome(call.on, call.text, call.kb)} :
              /\ threads' = [threads EXCEPT ![t].pc = "returning", ![t].st = r.st]
              /\ holder' = [holder EXCEPT !.res.wrapped = r.wrapped]
        /\ UNCHANGED <<issued, pres, wire, verifier, out, checked, issuer, mutex>>

ThreadReturn ==
    \E t \in Threads :
        /\ threads[t].pc = "returning"
        /\ threads' = [threads EXCEPT ![t].pc = "idle", ![t].on = "none", ![t].arg = 0,
                                      ![t].st = "none", ![t].locks = 0]
        /\ mutex' = [w \in Wrappers |->
                        IF mutex[w] = t /\ GuardDropped(threads[t].st) THEN Free ELSE mutex[w]]
        /\ UNCHANGED <<issued, holder, pres, wire, verifier, out, checked, issuer>>

\* The state the threads start from: an issuer, a token it issued, and a
\* holder built from that token.
InitLock ==
    /\ issuer = Issuer
    /\ \E user_claims \in {to_string(DocCatalogue[2])} :
       \E res \in {IssueWith(Issuer, [kind |-> "AllLevels", paths |-> NoStrategyPaths],
                             user_claims, <<HolderKey>>, FALSE, "Compact")} :
       \E built \in {HolderWrapperNew(res.text, "Compact")} :
          /\ issued = [res |-> res, claims |-> DocCatalogue[2],
                       strategy |-> [kind |-> "AllLevels", paths |-> NoStrategyPaths],
                       holder_key |-> <<HolderKey>>, add_decoy_claims |-> FALSE,
                       format |-> "Compact", st |-> res.st]
          /\ holder = [st |-> built.st, res |-> built]
    /\ pres = None
    /\ wire = None
    /\ verifier = None
    /\ out = <<>>
    /\ checked = None
    /\ threads = [t \in Threads |-> Idle]
    /\ mutex = [w \in Wrappers |-> Free]

NextLock ==
    \/ ThreadCall
    \/ ThreadParse
    \/ ThreadLock
    \/ ThreadEngine
    \/ ThreadReturn

SpecLock == InitLock /\ [][NextLock]_vars

(***************************************************************************)
(* C17: lock discipline on a shared issuer or holder wrapper               *)
(***************************************************************************)
\* The threads inside the engine of wrapper w.
Inside(w) ==
    {t \in Threads : threads[t].on = w /\ threads[t].locks = 1
                     /\ threads[t].pc \in {"locked", "returning"}}

\* Thread t can take its next step: parse, take a free lock, run the
\* engine, or return.
CanStep(t) ==
    \/ threads[t].pc \in {"called", "locked", "returning"}
    \/ threads[t].pc = "parsed" /\ mutex[threads[t].on] = Free

\* C17: on a shared issuer or holder wrapper at most one call is inside the
\* engine at a time; each call takes exactly one lock, only after its input
\* text was parsed, and holds it until it returns a result or an error; a
\* call that waits for the lock waits for a call that can run on and return
\* (no deadlock), and a call that has returned, with a result or an error,
\* holds no lock, so the instance stays usable.
C17_LockDiscipline ==
    /\ \A w \in Wrappers :
          /\ Cardinality(Inside(w)) <= 1
          /\ mutex[w] \in Inside(w) \cup {Free}
          /\ Inside(w) \subseteq {mutex[w]}
    /\ \A t \in Threads :
          /\ threads[t].locks <= 1
          /\ threads[t].pc \in {"idle", "called", "parsed"} => threads[t].locks = 0
          /\ threads[t].pc = "locked" => threads[t].locks = 1
          /\ threads[t].pc = "returning" =>
                /\ threads[t].locks = 1 => threads[t].st \in {"ok", "err"}
                /\ threads[t].locks = 0 => threads[t].st \in {"err", "panic"}
                /\ \A call \in {ThreadCallArgs[threads[t].arg]} :
                      threads[t].locks = 1 <=> ReachesLock(call.on, call.text, call.kb)
          /\ threads[t].pc = "parsed" /\ ~CanStep(t) =>
                /\ mutex[threads[t].on] \in Threads \ {t}
                /\ CanStep(mutex[threads[t].on])
                /\ threads[mutex[threads[t].on]].pc # "parsed"

\* A call that failed inside the engine is about to return with the lock
\* held while another thread, its input parsed, waits for the same lock.
C17_ErrorReturnsUnderContention ==
    \E t \in Threads, u \in Threads :
        /\ t # u
        /\ threads[t].pc = "returning" /\ threads[t].st = "err" /\ threads[t].locks = 1
        /\ threads[u].pc = "parsed" /\ threads[u].on = threads[t].on

(***************************************************************************)
(* C16: the algorithm of an issued token is implied by the key type        *)
(***************************************************************************)
AlgsOf(type) ==
    CASE type = "EC" -> {"ES256", "ES384"}
      [] type = "RSA" -> {"RS256", "RS384", "RS512"}
      [] type = "Ed25519" -> {"EdDSA"}

=============================================================================
